---- MODULE Spec2Model ----
(***************************************************************************)
(* A model of ssm-env's environment expansion (src/main.go, the current    *)
(* version of the program: lines 1-389).                                   *)
(*                                                                         *)
(* Strings are sequences of one-character strings, so that prefix tests,   *)
(* trimming, splitting at "=" and base64 decoding are computed the way the *)
(* Go code computes them.  The process environment is the list of          *)
(* "NAME=VALUE" entries that Environ() returns; Setenv rewrites the entry  *)
(* of a name.  One pass of expander.expandEnviron is cut into steps at its *)
(* external calls: the enumeration loop, the layout of the distinct names, *)
(* one step per GetParameters batch, one step per Decrypt entry, and the   *)
(* final return.                                                           *)
(***************************************************************************)
EXTENDS Integers, Sequences, FiniteSets, TLC

----------------------------------------------------------------------------
(* Bounds of the model. *)

\* Number of entries of the environment.
MaxVars == 3

\* Largest batch size tried (the program runs with defaultBatchSize, the
\* tests with 1).
MaxBatchSize == 2

----------------------------------------------------------------------------
(* Strings. *)

\* A nil *string: a sequence that no string equals (its element is not a
\* single character).
Nil == <<"nil">>

Eq == "="

\* strings.HasPrefix
HasPrefix(s, prefix) ==
    /\ Len(s) >= Len(prefix)
    /\ SubSeq(s, 1, Len(prefix)) = prefix

\* strings.TrimPrefix
TrimPrefix(s, prefix) ==
    IF HasPrefix(s, prefix) THEN SubSeq(s, Len(prefix) + 1, Len(s)) ELSE s

RECURSIVE TrimLeft(_, _)
\* strings.TrimLeft: drop the leading characters that are in cutset.
TrimLeft(s, cutset) ==
    IF s # <<>> /\ Head(s) \in cutset THEN TrimLeft(Tail(s), cutset) ELSE s

RECURSIVE TrimRight(_, _)
\* strings.TrimRight: drop the trailing characters that are in cutset.
TrimRight(s, cutset) ==
    IF s # <<>> /\ s[Len(s)] \in cutset
    THEN TrimRight(SubSeq(s, 1, Len(s) - 1), cutset)
    ELSE s

\* strings.Trim
Trim(s, cutset) == TrimRight(TrimLeft(s, cutset), cutset)

RECURSIVE Split(_, _)
\* strings.Split(s, sep) for a one-character separator: the parts between
\* the separators, always at least one part.
Split(s, sep) ==
    IF \A n \in 1..Len(s) : s[n] # sep
    THEN <<s>>
    ELSE LET n == CHOOSE m \in 1..Len(s) :
                      /\ s[m] = sep
                      /\ \A l \in 1..(m - 1) : s[l] # sep
         IN  <<SubSeq(s, 1, n - 1)>> \o Split(SubSeq(s, n + 1, Len(s)), sep)

\* strings.Repeat
Repeat(c, count) == [n \in 1..count |-> c]

\* Position of the first c in s, 0 when there is none.
IndexOf(s, c) ==
    IF \E n \in 1..Len(s) : s[n] = c
    THEN CHOOSE n \in 1..Len(s) : s[n] = c /\ \A m \in 1..(n - 1) : s[m] # c
    ELSE 0

----------------------------------------------------------------------------
(* Program constants. *)

\* `!kms `
KMSPrefix == <<"!", "k", "m", "s", " ">>

\* The literal of DefaultTemplate: `ssm://`
SsmScheme == <<"s", "s", "m", ":", "/", "/">>

\* The cutset of the strings.Trim call on the payload: `'" `
QuoteCutset == {"'", "\"", " "}

Slash == <<"/">>

\* The number of parameters main asks for in one GetParameters call.
defaultBatchSize == 10

----------------------------------------------------------------------------
(* The environment provider: Environ() is the list of NAME=VALUE entries,  *)
(* Setenv(key, val) rewrites the entry of key.                             *)

\* The name of an entry as the operating system sees it: the text before
\* the first "=".
EntryName(entry) ==
    LET at == IndexOf(entry, Eq)
    IN  IF at = 0 THEN entry ELSE SubSeq(entry, 1, at - 1)

\* The value of an entry as the operating system sees it: the whole text
\* after the first "=".
EntryValue(entry) ==
    LET at == IndexOf(entry, Eq)
    IN  IF at = 0 THEN <<>> ELSE SubSeq(entry, at + 1, Len(entry))

\* Setenv on the list of entries.
Setenv(e, key, val) ==
    IF \E n \in 1..Len(e) : EntryName(e[n]) = key
    THEN [n \in 1..Len(e) |->
             IF EntryName(e[n]) = key THEN key \o <<Eq>> \o val ELSE e[n]]
    ELSE Append(e, key \o <<Eq>> \o val)

----------------------------------------------------------------------------
(* Classification of one entry. *)

\* splitVar: strings.Split(v, "=") and its first two parts.  Every entry of
\* the modelled environment holds an "=", so parts[1] exists.
splitVar(v) ==
    LET parts == Split(v, Eq)
    IN  [key |-> parts[1], val |-> parts[2]]

\* The templates a pass is run with.
Templates == {"default", "custom", "broken"}

\* DefaultTemplate:
\* {{ if hasPrefix .Value "ssm://" }}{{ trimPrefix .Value "ssm://" }}{{ end }}
DefaultTemplate(k, v) ==
    IF HasPrefix(v, SsmScheme) THEN TrimPrefix(v, SsmScheme) ELSE <<>>

\* The names the custom template picks, and the key it gives them.
CustomNames == {<<"A">>, <<"B">>}

CustomKey == <<"/", "a">>

\* A custom template that decides by name, like the one of
\* TestExpandEnviron_CustomTemplate: {{ if eq .Name "..." }}/secret{{end}}
CustomTemplate(k, v) ==
    IF k \in CustomNames THEN CustomKey ELSE <<>>

\* Template.Execute: the text written and whether execution failed.  The
\* "broken" template is one that parses but fails on every execution (it
\* reads a field the data does not have).
Execute(t, k, v) ==
    CASE t = "default" -> [err |-> FALSE, out |-> DefaultTemplate(k, v)]
      [] t = "custom"  -> [err |-> FALSE, out |-> CustomTemplate(k, v)]
      [] OTHER         -> [err |-> TRUE, out |-> <<>>]

\* Faulty variant of parameter: the test for the empty output is missing.
parameterNoEmptyTest(t, k, v) ==
    LET r == Execute(t, k, v)
    IN  IF r.err THEN [err |-> TRUE, p |-> Nil]
        ELSE [err |-> FALSE, p |-> r.out]

\* Faulty variant of parameter: an error of the template is taken for an
\* empty output.
parameterSwallowsError(t, k, v) ==
    LET r == Execute(t, k, v)
    IN  IF ~r.err /\ r.out # <<>> THEN [err |-> FALSE, p |-> r.out]
        ELSE [err |-> FALSE, p |-> Nil]

\* expander.parameter: nil (Nil) for the empty output.
parameter(t, k, v) ==
    LET r == Execute(t, k, v)
    IN  IF r.err THEN [err |-> TRUE, p |-> Nil]
        ELSE IF r.out # <<>> THEN [err |-> FALSE, p |-> r.out]
        ELSE [err |-> FALSE, p |-> Nil]

\* Faulty variant of IsKms: no value is taken for an encrypted one.
IsKmsNever(v) == FALSE

\* Faulty variant of IsKms: the space that ends the prefix is not asked for.
IsKmsNoSeparator(v) == HasPrefix(v, SubSeq(KMSPrefix, 1, Len(KMSPrefix) - 1))

\* The test for a KMS encrypted value.
IsKms(v) == HasPrefix(v, KMSPrefix)

\* Faulty variant of encodedPart: the quotes and spaces are left in place.
encodedPartNoTrim(v) == TrimPrefix(v, KMSPrefix)

\* The payload of an encrypted value: the prefix removed, then quotes and
\* spaces trimmed on both sides.
encodedPart(v) == Trim(TrimPrefix(v, KMSPrefix), QuoteCutset)

\* Faulty variant of Rejected: the test is missing.
RejectedNever(p, nofail) == FALSE

\* Faulty variant of Rejected: nofail is not looked at.
RejectedAlways(p, nofail) == ~HasPrefix(p, Slash)

\* The test that rejects a parameter in the enumeration loop.
Rejected(p, nofail) == ~HasPrefix(p, Slash) /\ ~nofail

NoError == [kind |-> "none"]

\* What the enumeration loop has built so far.
EmptyScan ==
    [err |-> NoError, ssmVars |-> <<>>, kmsVars |-> <<>>, uniqNames |-> {}]

RECURSIVE ScanTemplateFirst(_, _, _, _, _)
\* Faulty variant of Scan: the template is asked first, and the test for an
\* encrypted value is made only for an entry without a parameter.
ScanTemplateFirst(entries, n, t, nofail, acc) ==
    IF n > Len(entries) THEN acc
    ELSE LET envvar == entries[n]
             kv     == splitVar(envvar)
             par    == parameter(t, kv.key, kv.val)
         IN  IF par.err
             THEN [acc EXCEPT !.err = [kind |-> "template"]]
             ELSE IF par.p = Nil
             THEN IF IsKms(kv.val)
                  THEN ScanTemplateFirst(entries, n + 1, t, nofail,
                           [acc EXCEPT !.kmsVars =
                                Append(@, [envvar  |-> kv.key,
                                           encoded |-> encodedPart(kv.val)])])
                  ELSE ScanTemplateFirst(entries, n + 1, t, nofail, acc)
             ELSE IF Rejected(par.p, nofail)
             THEN [acc EXCEPT !.err = [kind |-> "malformed", envvar |-> envvar]]
             ELSE ScanTemplateFirst(entries, n + 1, t, nofail,
                      [acc EXCEPT !.uniqNames = @ \cup {par.p},
                                  !.ssmVars =
                                      Append(@, [envvar    |-> kv.key,
                                                 parameter |-> par.p])])

RECURSIVE Scan(_, _, _, _, _)
\* The loop over Environ() of expandEnviron, from entry n on: the two lists
\* and the set of names, or the error the loop returns with.
Scan(entries, n, t, nofail, acc) ==
    IF n > Len(entries) THEN acc
    ELSE LET envvar == entries[n]
             kv     == splitVar(envvar)
             par    == parameter(t, kv.key, kv.val)
         IN  IF IsKms(kv.val)
             THEN Scan(entries, n + 1, t, nofail,
                       [acc EXCEPT !.kmsVars =
                            Append(@, [envvar  |-> kv.key,
                                       encoded |-> encodedPart(kv.val)])])
             ELSE IF par.err
             THEN [acc EXCEPT !.err = [kind |-> "template"]]
             ELSE IF par.p = Nil
             THEN Scan(entries, n + 1, t, nofail, acc)
             ELSE IF Rejected(par.p, nofail)
             THEN [acc EXCEPT !.err = [kind |-> "malformed", envvar |-> envvar]]
             ELSE Scan(entries, n + 1, t, nofail,
                       [acc EXCEPT !.uniqNames = @ \cup {par.p},
                                   !.ssmVars =
                                       Append(@, [envvar    |-> kv.key,
                                                  parameter |-> par.p])])

----------------------------------------------------------------------------
(* The parameter store, as GetParameters answers. *)

Colon == ":"

\* A name whose stored value reads like a reference: /r holds `ssm:///b`.
NestedKey == <<"/", "r">>

NestedValue == SsmScheme \o <<"/", "b">>

\* The value the store holds for a requested name.
StoreValue(n) == IF n = NestedKey THEN NestedValue ELSE <<"v">> \o n

\* The entry the store returns for a requested name: a request for
\* `name:selector` comes back as Name `name` with Selector `:selector`.
StoreEntry(n) ==
    IF IndexOf(n, Colon) = 0
    THEN [Name |-> n, Selector |-> Nil, Value |-> StoreValue(n)]
    ELSE [Name     |-> SubSeq(n, 1, IndexOf(n, Colon) - 1),
          Selector |-> SubSeq(n, IndexOf(n, Colon), Len(n)),
          Value    |-> StoreValue(n)]

\* What the store can do with one requested name.
Outcomes == {"valid", "invalid", "omitted"}

\* The output of a call that answered: the requested names the store holds,
\* as entries, and the ones it reports invalid.
Output(reqNames, outcome) ==
    LET positions == [n \in 1..Len(reqNames) |-> n]
        valid   == SelectSeq(positions, LAMBDA n : outcome[n] = "valid")
        invalid == SelectSeq(positions, LAMBDA n : outcome[n] = "invalid")
    IN  [Parameters |-> [n \in 1..Len(valid) |-> StoreEntry(reqNames[valid[n]])],
         InvalidParameters |-> [n \in 1..Len(invalid) |-> reqNames[invalid[n]]]]

\* The output the SDK hands back beside an error: allocated, and empty.
EmptyOutput == [Parameters |-> <<>>, InvalidParameters |-> <<>>]

\* The nil output that comes back when the session cannot be created.
NilOutput == [nil |-> TRUE]

----------------------------------------------------------------------------
(* getParameters, after the call has returned resp (its output). *)

\* Faulty variant of newInvalidParametersError: the nil test is inverted.
newInvalidParametersErrorInverted(resp) ==
    [kind |-> "invalid",
     InvalidParameters |-> SelectSeq(resp.InvalidParameters, LAMBDA p : p = Nil)]

\* newInvalidParametersError: the invalid names of the response, nil
\* entries skipped.
newInvalidParametersError(resp) ==
    [kind |-> "invalid",
     InvalidParameters |-> SelectSeq(resp.InvalidParameters, LAMBDA p : p # Nil)]

\* Faulty variant of ComposedName: the Selector is left out.
ComposedNameNoSelector(p) == p.Name

\* The key a returned entry is stored under: Name, followed by Selector
\* when there is one.
ComposedName(p) ==
    IF p.Selector # Nil THEN p.Name \o p.Selector ELSE p.Name

\* The map built from resp.Parameters; a later entry overwrites an earlier
\* one with the same key.
ValuesOf(params) ==
    [k \in {ComposedName(params[n]) : n \in 1..Len(params)} |->
        LET last == CHOOSE n \in 1..Len(params) :
                        /\ ComposedName(params[n]) = k
                        /\ \A m \in (n + 1)..Len(params) :
                               ComposedName(params[m]) # k
        IN  params[last].Value]

\* Faulty variant of getParameters: the invalid names of a response are not
\* looked at.
getParametersIgnoresInvalid(resp, nofail) ==
    [values |-> ValuesOf(resp.Parameters), err |-> NoError]

\* Faulty variant of getParameters: a response with invalid names gives no
\* values at all under nofail.
getParametersDropsBatch(resp, nofail) ==
    IF Len(resp.InvalidParameters) > 0
    THEN [values |-> << >>,
          err |-> IF nofail THEN NoError ELSE newInvalidParametersError(resp)]
    ELSE [values |-> ValuesOf(resp.Parameters), err |-> NoError]

\* getParameters from the check of InvalidParameters on: the values and the
\* error it returns.
getParameters(resp, nofail) ==
    IF Len(resp.InvalidParameters) > 0 /\ ~nofail
    THEN [values |-> << >>, err |-> newInvalidParametersError(resp)]
    ELSE [values |-> ValuesOf(resp.Parameters), err |-> NoError]

RECURSIVE SetAllFirstOnly(_, _, _)
\* Faulty variant of SetAll: the loop is left after the first Setenv.
SetAllFirstOnly(e, vars, values) ==
    IF vars = <<>> THEN e
    ELSE LET v == Head(vars)
         IN  IF v.parameter \in DOMAIN values
             THEN Setenv(e, v.envvar, values[v.parameter])
             ELSE SetAllFirstOnly(e, Tail(vars), values)

RECURSIVE SetAllNoOk(_, _, _)
\* Faulty variant of SetAll: the map is read without the ok test, so a
\* variable without a value is set to the empty string.
SetAllNoOk(e, vars, values) ==
    IF vars = <<>> THEN e
    ELSE LET v == Head(vars)
         IN  SetAllNoOk(Setenv(e, v.envvar,
                               IF v.parameter \in DOMAIN values
                               THEN values[v.parameter] ELSE <<>>),
                        Tail(vars), values)

RECURSIVE SetAll(_, _, _)
\* The loop over ssmVars after a batch: Setenv for every variable whose
\* parameter has a value.
SetAll(e, vars, values) ==
    IF vars = <<>> THEN e
    ELSE LET v == Head(vars)
         IN  IF v.parameter \in DOMAIN values
             THEN SetAll(Setenv(e, v.envvar, values[v.parameter]),
                         Tail(vars), values)
             ELSE SetAll(e, Tail(vars), values)

\* The Setenv calls of that loop, in order, for the call-th GetParameters.
SetLog(vars, values, call) ==
    LET hit == SelectSeq(vars, LAMBDA v : v.parameter \in DOMAIN values)
    IN  [n \in 1..Len(hit) |->
            [envvar |-> hit[n].envvar,
             val    |-> values[hit[n].parameter],
             from   |-> "ssm",
             call   |-> call]]

\* Faulty variant of Batch: names[:j] in place of names[i:j].
BatchFromStart(allNames, i, size) ==
    LET j == IF i + size > Len(allNames) THEN Len(allNames) ELSE i + size
    IN  SubSeq(allNames, 1, j)

\* names[i:j] of the batch loop (i counted from 0).
Batch(allNames, i, size) ==
    LET j == IF i + size > Len(allNames) THEN Len(allNames) ELSE i + size
    IN  SubSeq(allNames, i + 1, j)

----------------------------------------------------------------------------
(* The batch loop as a function of the layout of the names, for a store    *)
(* whose answer for a key is the same in every call.                       *)

\* What such a store does: it answers by key ("answers", with the outcome
\* of every key), it fails every call ("fails"), or the session cannot be
\* created ("nosession").
StoreKinds == {"answers", "fails", "nosession"}

\* GetParameters of the store st on reqNames.
StoreCall(st, reqNames) ==
    CASE st.kind = "nosession" -> [resp |-> NilOutput, err |-> TRUE]
      [] st.kind = "fails"     -> [resp |-> EmptyOutput, err |-> TRUE]
      [] OTHER ->
            [resp |-> Output(reqNames,
                             [n \in 1..Len(reqNames) |-> st.of[reqNames[n]]]),
             err  |-> FALSE]

RECURSIVE BatchLoop(_, _, _, _, _, _, _)
\* The batch loop of expandEnviron from index at on, over the store st: the
\* environment it leaves, the error it returns with, and whether it
\* crashes on the nil output.
BatchLoop(e, ssmvars, allNames, at, size, nf, st) ==
    IF at >= Len(allNames)
    THEN [env |-> e, err |-> NoError, panic |-> FALSE]
    ELSE LET r == StoreCall(st, Batch(allNames, at, size))
         IN  IF r.err /\ ~nf
             THEN [env |-> e, err |-> [kind |-> "call"], panic |-> FALSE]
             ELSE IF r.resp = NilOutput
             THEN [env |-> e, err |-> NoError, panic |-> TRUE]
             ELSE LET got == getParameters(r.resp, nf)
                  IN  IF got.err # NoError
                      THEN [env |-> e, err |-> got.err, panic |-> FALSE]
                      ELSE BatchLoop(SetAll(e, ssmvars, got.values), ssmvars,
                                     allNames, at + size, size, nf, st)

----------------------------------------------------------------------------
(* decryptKmsValue: padding, base64.StdEncoding.DecodeString, Decrypt. *)

Pad == "="

\* The alphabet of base64.StdEncoding.
Alphabet ==
    <<"A", "B", "C", "D", "E", "F", "G", "H", "I", "J", "K", "L", "M",
      "N", "O", "P", "Q", "R", "S", "T", "U", "V", "W", "X", "Y", "Z",
      "a", "b", "c", "d", "e", "f", "g", "h", "i", "j", "k", "l", "m",
      "n", "o", "p", "q", "r", "s", "t", "u", "v", "w", "x", "y", "z",
      "0", "1", "2", "3", "4", "5", "6", "7", "8", "9", "+", "/">>

InAlphabet(c) == \E n \in 1..Len(Alphabet) : Alphabet[n] = c

\* The six bits a character of the alphabet stands for.
Sextet(c) == (CHOOSE n \in 1..Len(Alphabet) : Alphabet[n] = c) - 1

\* Faulty variant of Padded: len % 4 characters are appended, not 4 less
\* that.
PaddedByRemainder(encodedValue) ==
    LET padding == Len(encodedValue) % 4
    IN  IF padding # 0
        THEN encodedValue \o Repeat(Pad, padding)
        ELSE encodedValue

\* The padding step: `=` appended up to a multiple of 4.
Padded(encodedValue) ==
    LET padding == Len(encodedValue) % 4
    IN  IF padding # 0
        THEN encodedValue \o Repeat(Pad, 4 - padding)
        ELSE encodedValue

\* The bytes of one quantum of four characters, of which the last `pads`
\* are padding.
Quantum(q, pads) ==
    LET a == Sextet(q[1])
        b == Sextet(q[2])
        c == IF pads >= 2 THEN 0 ELSE Sextet(q[3])
        d == IF pads >= 1 THEN 0 ELSE Sextet(q[4])
        bytes == << (a * 4 + (b \div 16)) % 256,
                    ((b % 16) * 16 + (c \div 4)) % 256,
                    ((c % 4) * 64 + d) % 256 >>
    IN  SubSeq(bytes, 1, 3 - pads)

RECURSIVE DecodeString(_)
\* base64.StdEncoding.DecodeString: the bytes, or an error for a character
\* outside the alphabet, misplaced padding, text after the padding or an
\* incomplete quantum.
DecodeString(s) ==
    IF s = <<>> THEN [err |-> FALSE, bytes |-> <<>>]
    ELSE IF Len(s) < 4 THEN [err |-> TRUE, bytes |-> <<>>]
    ELSE LET q    == SubSeq(s, 1, 4)
             rest == SubSeq(s, 5, Len(s))
             more == DecodeString(rest)
         IN  IF \A n \in 1..4 : InAlphabet(q[n])
             THEN IF more.err THEN more
                  ELSE [err |-> FALSE, bytes |-> Quantum(q, 0) \o more.bytes]
             ELSE IF /\ InAlphabet(q[1]) /\ InAlphabet(q[2]) /\ InAlphabet(q[3])
                     /\ q[4] = Pad /\ rest = <<>>
             THEN [err |-> FALSE, bytes |-> Quantum(q, 1)]
             ELSE IF /\ InAlphabet(q[1]) /\ InAlphabet(q[2])
                     /\ q[3] = Pad /\ q[4] = Pad /\ rest = <<>>
             THEN [err |-> FALSE, bytes |-> Quantum(q, 2)]
             ELSE [err |-> TRUE, bytes |-> <<>>]

\* A ciphertext whose plaintext reads like an encrypted value: the bytes
\* REF decrypt to `!kms QUJD`.
NestedBlob == <<82, 69, 70>>

NestedPlaintext == KMSPrefix \o <<"Q", "U", "J", "D">>

\* The plaintext the KMS key gives for a ciphertext.
KmsPlaintext(blob) ==
    IF blob = NestedBlob THEN NestedPlaintext
    ELSE <<"p">> \o [n \in 1..Len(blob) |-> Alphabet[(blob[n] % 64) + 1]]

----------------------------------------------------------------------------
(* The lazy clients: the session is created at the first call, and the     *)
(* call is handed to the SDK client.                                       *)

\* lazySSMClient.GetParameters on reqNames: every result the call can have.
\* resp is NilOutput when the session could not be created; ready tells whether
\* the client holds an SDK client afterwards.
lazySSMGetParameters(ready, reqNames) ==
    (IF ready THEN {}
     ELSE {[resp |-> NilOutput, err |-> TRUE, ready |-> FALSE]})
    \cup {[resp |-> EmptyOutput, err |-> TRUE, ready |-> TRUE]}
    \cup {[resp |-> Output(reqNames, outcome), err |-> FALSE, ready |-> TRUE] :
             outcome \in [1..Len(reqNames) -> Outcomes]}

\* lazyKMSClient.Decrypt on a ciphertext: every result the call can have.
lazyKMSDecrypt(ready, blob) ==
    (IF ready THEN {}
     ELSE {[Plaintext |-> <<>>, err |-> TRUE, ready |-> FALSE]})
    \cup {[Plaintext |-> <<>>, err |-> TRUE, ready |-> TRUE],
          [Plaintext |-> KmsPlaintext(blob), err |-> FALSE, ready |-> TRUE]}

\* Faulty variant of decryptKmsValue: the error of DecodeString is dropped
\* and Decrypt is called with the bytes decoded so far.
decryptKmsValueIgnoresDecodeError(encodedValue, ready) ==
    LET decoded == DecodeString(Padded(encodedValue))
    IN  {[value   |-> r.Plaintext,
          err     |-> IF r.err THEN "decrypt" ELSE "none",
          called  |-> TRUE,
          blob    |-> decoded.bytes,
          callErr |-> r.err,
          ready   |-> r.ready] : r \in lazyKMSDecrypt(ready, decoded.bytes)}

\* Faulty variant of decryptKmsValue: the error of Decrypt is not looked at
\* and the plaintext of the (empty) result is returned.
decryptKmsValueIgnoresDecryptError(encodedValue, ready) ==
    LET decoded == DecodeString(Padded(encodedValue))
    IN  IF decoded.err
        THEN {[value |-> <<>>, err |-> "decode", called |-> FALSE,
               blob |-> <<>>, callErr |-> FALSE, ready |-> ready]}
        ELSE {[value   |-> r.Plaintext,
               err     |-> "none",
               called  |-> TRUE,
               blob    |-> decoded.bytes,
               callErr |-> r.err,
               ready   |-> r.ready] : r \in lazyKMSDecrypt(ready, decoded.bytes)}

\* decryptKmsValue: every result it can have for a payload.  called tells
\* whether Decrypt was called, and blob with what; err is "decode" (the
\* payload does not decode), "decrypt" (the error of the Decrypt call) or
\* "none", and then value is string(result.Plaintext); callErr is the error
\* Decrypt came back with.
decryptKmsValue(encodedValue, ready) ==
    LET decoded == DecodeString(Padded(encodedValue))
    IN  IF decoded.err
        THEN {[value |-> <<>>, err |-> "decode", called |-> FALSE,
               blob |-> <<>>, callErr |-> FALSE, ready |-> ready]}
        ELSE {[value   |-> r.Plaintext,
               err     |-> IF r.err THEN "decrypt" ELSE "none",
               called  |-> TRUE,
               blob    |-> decoded.bytes,
               callErr |-> r.err,
               ready   |-> r.ready] : r \in lazyKMSDecrypt(ready, decoded.bytes)}

\* Faulty variant of kmsFailure: without nofail the error is kept and the
\* loop goes on with the next entry.
kmsFailureGoesOn(nofail, cause) ==
    IF nofail THEN [stop |-> FALSE, err |-> NoError]
    ELSE [stop |-> FALSE, err |-> [kind |-> "kms", cause |-> cause]]

\* Faulty variant of kmsFailure: under nofail the loop is left (break in
\* place of continue).
kmsFailureBreaks(nofail, cause) ==
    IF nofail THEN [stop |-> TRUE, err |-> NoError]
    ELSE [stop |-> TRUE, err |-> [kind |-> "kms", cause |-> cause]]

\* What the loop over kmsVars does with an error of decryptKmsValue: under
\* nofail it prints and goes on, otherwise the pass returns the error.
kmsFailure(nofail, cause) ==
    IF nofail THEN [stop |-> FALSE, err |-> NoError]
    ELSE [stop |-> TRUE, err |-> [kind |-> "kms", cause |-> cause]]

----------------------------------------------------------------------------
(* The environments a pass starts from. *)

Letters == <<"A", "B", "C", "D", "E", "F">>

\* The name of the n-th entry.
VarName(n) == <<Letters[n]>>

PlainValue == <<"x">>

\* ssm:///a and the versioned ssm:///a:2
RefA == SsmScheme \o <<"/", "a">>

RefA2 == SsmScheme \o <<"/", "a", ":", "2">>

\* ssm:///b
RefB == SsmScheme \o <<"/", "b">>

\* ssm://s, whose key has no leading slash
RefBare == SsmScheme \o <<"s">>

\* `!kms QUJD`, a payload that decodes, and `!kms Q!`, one that does not
KmsGood == KMSPrefix \o <<"Q", "U", "J", "D">>

KmsBad == KMSPrefix \o <<"Q", "!">>

Values == {PlainValue, RefA, RefA2, RefBare, KmsGood, KmsBad}

\* `!kms 'QUJF'`, a payload in quotes
KmsQuoted == KMSPrefix \o <<"'", "Q", "U", "J", "F", "'">>

\* The values of the environments a whole run of the command starts from.
MainValues == {PlainValue, RefA, RefBare, KmsGood}

\* The values of the environments that hold mostly encrypted entries.
KmsValues == {PlainValue, RefA, KmsGood, KmsQuoted, KmsBad}

\* `!kms ` alone, `!kmsa`, and payloads with quotes and spaces around and
\* inside: `!kms  "QUJD' ` and `!kms 'Q'U'`
KmsAlone == KMSPrefix

KmsNoSeparator == <<"!", "k", "m", "s", "a">>

KmsMixed == KMSPrefix \o <<" ", "\"", "Q", "U", "J", "D", "'", " ">>

KmsInner == KMSPrefix \o <<"'", "Q", "'", "U", "'">>

\* The values of the environments the extraction of the payload is run on.
ExtractValues == {KmsAlone, KmsNoSeparator, RefA, KmsQuoted, KmsMixed, KmsInner}

\* Payloads with padding: `!kms QUI=`, `!kms 'QQ=='` in quotes, and
\* `!kms Q`, of a length no padding makes valid
KmsPad1 == KMSPrefix \o <<"Q", "U", "I", "=">>

KmsPad2 == KMSPrefix \o <<"'", "Q", "Q", "=", "=", "'">>

KmsOdd == KMSPrefix \o <<"Q">>

\* ssm:///a=b, a reference with an `=` in it
RefEq == SsmScheme \o <<"/", "a", "=", "b">>

\* The values of the environments with padded payloads.
PadValues == {RefA, KmsGood, KmsPad1, KmsPad2, KmsOdd}

\* The values of the environments with an `=` inside a value.
SplitValues == {RefA, RefEq, KmsGood}

\* ssm:///r and `!kms UkVG`, whose resolved values read like references
RefR == SsmScheme \o NestedKey

KmsNest == KMSPrefix \o <<"U", "k", "V", "G">>

\* The values of the environments whose resolved values read like
\* references.
NestValues == {RefA, RefR, KmsGood, KmsNest}

\* The values of the environments with several batches and encrypted
\* entries.
BatchValues == {RefA, RefA2, RefB, KmsGood}

\* The entries NAME=VALUE of the values vals, in the order of Environ().
Environment(vals) ==
    [n \in 1..Len(vals) |-> VarName(n) \o <<Eq>> \o vals[n]]

\* The orders a set can be laid out in.
Layouts(S) ==
    {s \in [1..Cardinality(S) -> S] :
        \A m, n \in 1..Cardinality(S) : m # n => s[m] # s[n]}

----------------------------------------------------------------------------
(* State. *)

VARIABLES
    env,        \* the environment: the list of NAME=VALUE entries
    env0,       \* the environment the pass started from
    template,   \* the template of the expander
    batchSize,  \* e.batchSize
    decrypt,    \* the decrypt argument
    nofail,     \* the nofail argument
    pc,         \* where the process is: main, start, layout, batch, kms,
                \* done, panic, and returned, exit, exec at its end
                \* (printed, applied after setEnviron)
    err,        \* the error expandEnviron returned
    ssmVars,    \* the variables that point to SSM parameters
    kmsVars,    \* the variables that are KMS encrypted
    uniqNames,  \* the distinct parameter names
    names,      \* uniqNames laid out as a list
    i,          \* the index of the batch loop
    k,          \* the number of entries of kmsVars already processed
    ssmReady,   \* lazySSMClient holds an SDK client
    kmsReady,   \* lazyKMSClient holds an SDK client
    ssmCalls,   \* the GetParameters calls made, with their results
    kmsCalls,   \* the Decrypt calls made, with their results
    setenvLog,  \* the Setenv calls made
    staged,     \* the (name, resolved value) pairs recorded for display
    stdout      \* the lines written to the output

vars ==
    <<env, env0, template, batchSize, decrypt, nofail, pc, err, ssmVars,
      kmsVars, uniqNames, names, i, k, ssmReady, kmsReady, ssmCalls,
      kmsCalls, setenvLog, staged, stdout>>

\* What only the version with a print-only mode writes.
display == <<staged, stdout>>

args == <<env0, template, batchSize, decrypt, nofail>>

\* The state of a process at the place at, before expandEnviron has done
\* anything, for an environment with values of pool and an expander with a
\* batch size of sizes.
Start(pool, at, sizes) ==
    /\ env0 \in {Environment(vals) : vals \in [1..MaxVars -> pool]}
    /\ env = env0
    /\ template \in Templates
    /\ batchSize \in sizes
    \* the flag is copied into every request and read nowhere else; the
    \* passes are run with it set
    /\ decrypt = TRUE
    /\ nofail \in BOOLEAN
    /\ pc = at
    /\ err = NoError
    /\ ssmVars = <<>>
    /\ kmsVars = <<>>
    /\ uniqNames = {}
    /\ names = <<>>
    /\ i = 0
    /\ k = 0
    /\ ssmReady = FALSE
    /\ kmsReady = FALSE
    /\ ssmCalls = <<>>
    /\ kmsCalls = <<>>
    /\ setenvLog = <<>>
    /\ staged = <<>>
    /\ stdout = <<>>

\* The state at the call of expandEnviron.
Init == Start(Values, "start", 1..MaxBatchSize)

InitKms == Start(KmsValues, "start", 1..MaxBatchSize)

InitBatch == Start(BatchValues, "start", 1..MaxBatchSize)

\* Neither the padding nor the extraction of a payload reads the batch
\* size: these passes run with the default.
InitPad == Start(PadValues, "start", {defaultBatchSize})

InitSplit == Start(SplitValues, "start", 1..MaxBatchSize)

InitNest == Start(NestValues, "start", 1..MaxBatchSize)

InitExtract == Start(ExtractValues, "start", {defaultBatchSize})

\* The state at the call of expandEnviron of the version with a print-only
\* mode.
InitPrint == Start(MainValues, "start", 1..MaxBatchSize)

\* The state at the start of main, which builds its expander with
\* defaultBatchSize.
InitMain == Start(MainValues, "main", {defaultBatchSize})

----------------------------------------------------------------------------
(* The steps of expandEnviron. *)

\* The loop over Environ(): classify every entry, or return with the first
\* error.
Enumerate ==
    /\ pc = "start"
    /\ \E s \in {Scan(env, 1, template, nofail, EmptyScan)} :
           IF s.err # NoError
           THEN /\ err' = s.err
                /\ pc' = "done"
                /\ UNCHANGED <<ssmVars, kmsVars, uniqNames>>
           ELSE /\ ssmVars' = s.ssmVars
                /\ kmsVars' = s.kmsVars
                /\ uniqNames' = s.uniqNames
                /\ pc' = IF Cardinality(s.uniqNames) > 0 THEN "layout" ELSE "kms"
                /\ err' = err
    /\ UNCHANGED <<env, args, names, i, k, ssmReady, kmsReady, ssmCalls,
                   kmsCalls, setenvLog, display>>

\* The distinct names are copied into a list in the order the map yields
\* them, which is any order.
Layout ==
    /\ pc = "layout"
    /\ names' \in Layouts(uniqNames)
    /\ i' = 0
    /\ pc' = "batch"
    /\ UNCHANGED <<env, args, err, ssmVars, kmsVars, uniqNames, k, ssmReady,
                   kmsReady, ssmCalls, kmsCalls, setenvLog, display>>

\* Faulty variant of Advance: the loop moves on by one name.
AdvanceByOne(at, size) == at + 1

\* The step of the batch loop: i += e.batchSize.
Advance(at, size) == at + size

\* One round of the batch loop: getParameters on names[i:j], then Setenv
\* for every variable the batch gave a value.
GetBatch ==
    /\ pc = "batch"
    /\ i < Len(names)
    /\ LET req == Batch(names, i, batchSize)
       IN  \E r \in lazySSMGetParameters(ssmReady, req) :
             /\ ssmReady' = r.ready
             /\ ssmCalls' = Append(ssmCalls,
                                   [Names          |-> req,
                                    WithDecryption |-> decrypt,
                                    resp           |-> r.resp,
                                    err            |-> r.err])
             /\ IF r.err /\ ~nofail
                THEN \* the error of the call is returned
                     /\ err' = [kind |-> "call"]
                     /\ pc' = "done"
                     /\ UNCHANGED <<env, i, setenvLog>>
                ELSE IF r.resp = NilOutput
                THEN \* resp.InvalidParameters of a nil output
                     /\ pc' = "panic"
                     /\ UNCHANGED <<env, err, i, setenvLog>>
                ELSE LET got == getParameters(r.resp, nofail)
                     IN  IF got.err # NoError
                         THEN /\ err' = got.err
                              /\ pc' = "done"
                              /\ UNCHANGED <<env, i, setenvLog>>
                         ELSE /\ env' = SetAll(env, ssmVars, got.values)
                              /\ setenvLog' =
                                     setenvLog \o
                                     SetLog(ssmVars, got.values,
                                            Len(ssmCalls) + 1)
                              /\ i' = Advance(i, batchSize)
                              /\ pc' = IF Advance(i, batchSize) < Len(names)
                                       THEN "batch" ELSE "kms"
                              /\ err' = err
    /\ UNCHANGED <<args, ssmVars, kmsVars, uniqNames, names, k, kmsReady,
                   kmsCalls, display>>

\* The body of the loop over kmsVars for its next entry: decryptKmsValue,
\* then Setenv, or the error, which ends the pass unless nofail.
DecryptRound ==
    /\ k < Len(kmsVars)
    /\ LET kv == kmsVars[k + 1]
       IN  \E d \in decryptKmsValue(kv.encoded, kmsReady) :
             /\ kmsReady' = d.ready
             /\ kmsCalls' = IF d.called
                            THEN Append(kmsCalls,
                                        [CiphertextBlob |-> d.blob,
                                         entry          |-> k + 1,
                                         envvar         |-> kv.envvar,
                                         err            |-> d.callErr])
                            ELSE kmsCalls
             /\ IF d.err # "none"
                THEN LET f == kmsFailure(nofail, d.err)
                     IN  /\ err' = f.err
                         /\ pc' = IF f.stop THEN "done" ELSE pc
                         /\ k' = IF f.stop THEN k ELSE k + 1
                         /\ UNCHANGED <<env, setenvLog>>
                ELSE /\ env' = Setenv(env, kv.envvar, d.value)
                     /\ setenvLog' =
                            Append(setenvLog,
                                   [envvar |-> kv.envvar,
                                    val    |-> d.value,
                                    from   |-> "kms",
                                    call   |-> Len(kmsCalls) + 1])
                     /\ k' = k + 1
                     /\ UNCHANGED <<pc, err>>
    /\ UNCHANGED <<args, ssmVars, kmsVars, uniqNames, names, i, ssmReady,
                   ssmCalls, display>>

\* Faulty variant of DecryptNext: the loop over kmsVars is not kept behind
\* the batch loop, a round of it can run between two batches.
DecryptNextAmongBatches ==
    /\ pc \in {"batch", "kms"}
    /\ DecryptRound

\* One round of the loop over kmsVars, which stands after the batch loop.
DecryptNext ==
    /\ pc = "kms"
    /\ DecryptRound

\* Faulty variant of Return: when the pass has changed the environment, it
\* enumerates the environment once more before it returns.
ReturnRescans ==
    /\ pc = "kms"
    /\ k >= Len(kmsVars)
    /\ pc' = IF env # env0 /\ Len(ssmCalls) + Len(kmsCalls) <= MaxVars
             THEN "start" ELSE "done"
    /\ k' = 0
    /\ UNCHANGED <<env, args, err, ssmVars, kmsVars, uniqNames, names, i,
                   ssmReady, kmsReady, ssmCalls, kmsCalls, setenvLog, display>>

\* The end of expandEnviron: return nil.
Return ==
    /\ pc = "kms"
    /\ k >= Len(kmsVars)
    /\ pc' = "done"
    /\ UNCHANGED <<env, args, err, ssmVars, kmsVars, uniqNames, names, i, k,
                   ssmReady, kmsReady, ssmCalls, kmsCalls, setenvLog, display>>

Next ==
    \/ Enumerate
    \/ Layout
    \/ GetBatch
    \/ DecryptNext
    \/ Return

Spec == Init /\ [][Next]_vars

\* The passes over environments of mostly encrypted entries.
SpecKms == InitKms /\ [][Next]_vars

\* The passes over environments of several keys and encrypted entries.
SpecBatch == InitBatch /\ [][Next]_vars

\* The passes over environments with padded payloads.
SpecPad == InitPad /\ [][Next]_vars

\* The passes over environments with an `=` inside a value.
SpecSplit == InitSplit /\ [][Next]_vars

\* The passes over the same environments when the process keeps running:
\* the pass is one sequential function whose external calls return, so a
\* step that can be taken is taken.
SpecFair == InitBatch /\ [][Next]_vars /\ WF_vars(Next)

\* The passes over environments whose resolved values read like references.
SpecNest == InitNest /\ [][Next]_vars

\* The passes over environments of values around the `!kms ` prefix.
SpecExtract == InitExtract /\ [][Next]_vars

----------------------------------------------------------------------------
(* main: the steps before and after the call of expandEnviron. *)

\* main up to the call of expandEnviron: with -V the version is printed and
\* main returns; without a command, or with one LookPath does not find,
\* the process exits with status 1 (the templates of the model parse).
Main ==
    /\ pc = "main"
    /\ \E print_version \in BOOLEAN, nargs \in 0..1, found \in BOOLEAN :
          pc' = IF print_version THEN "returned"
                ELSE IF nargs <= 0 THEN "exit"
                ELSE IF ~found THEN "exit"
                ELSE "start"
    /\ UNCHANGED <<env, args, err, ssmVars, kmsVars, uniqNames, names, i, k,
                   ssmReady, kmsReady, ssmCalls, kmsCalls, setenvLog, display>>

\* Faulty variant of must: the error is printed and the process goes on.
mustGoesOn(e) == FALSE

\* must: with an error, the process prints it and exits with status 1.
must(e) == e # NoError

\* main after expandEnviron has returned: must on its error, then
\* syscall.Exec with os.Environ(), which replaces the process (pc "exec",
\* the command runs with env) or fails, and must exits.
Exec ==
    /\ pc = "done"
    /\ \E failed \in BOOLEAN :
          pc' = IF must(err) THEN "exit"
                ELSE IF failed THEN "exit"
                ELSE "exec"
    /\ UNCHANGED <<env, args, err, ssmVars, kmsVars, uniqNames, names, i, k,
                   ssmReady, kmsReady, ssmCalls, kmsCalls, setenvLog, display>>

MainNext ==
    \/ Main
    \/ Next
    \/ Exec

\* The runs of the command, from the start of main.
SpecMain == InitMain /\ [][MainNext]_vars

----------------------------------------------------------------------------
(* The print-only mode: expandEnviron hands back the (name, resolved       *)
(* value) pairs in place of setting them, and setEnviron(print, vars)      *)
(* writes them to the output or sets them.                                 *)

\* One round of the batch loop: getParameters on names[i:j], then the pair
\* of every variable the batch gave a value is recorded.
StageBatch ==
    /\ pc = "batch"
    /\ i < Len(names)
    /\ LET req == Batch(names, i, batchSize)
       IN  \E r \in lazySSMGetParameters(ssmReady, req) :
             /\ ssmReady' = r.ready
             /\ ssmCalls' = Append(ssmCalls,
                                   [Names          |-> req,
                                    WithDecryption |-> decrypt,
                                    resp           |-> r.resp,
                                    err            |-> r.err])
             /\ IF r.err /\ ~nofail
                THEN /\ err' = [kind |-> "call"]
                     /\ pc' = "done"
                     /\ UNCHANGED <<i, staged>>
                ELSE IF r.resp = NilOutput
                THEN /\ pc' = "panic"
                     /\ UNCHANGED <<err, i, staged>>
                ELSE LET got == getParameters(r.resp, nofail)
                     IN  IF got.err # NoError
                         THEN /\ err' = got.err
                              /\ pc' = "done"
                              /\ UNCHANGED <<i, staged>>
                         ELSE /\ staged' =
                                     staged \o
                                     SetLog(ssmVars, got.values,
                                            Len(ssmCalls) + 1)
                              /\ i' = i + batchSize
                              /\ pc' = IF i + batchSize < Len(names)
                                       THEN "batch" ELSE "kms"
                              /\ err' = err
    /\ UNCHANGED <<env, args, ssmVars, kmsVars, uniqNames, names, k, kmsReady,
                   kmsCalls, setenvLog, stdout>>

\* One round of the loop over kmsVars: decryptKmsValue, then the pair of
\* the variable is recorded, or the error, which ends the pass unless
\* nofail.
StageDecrypt ==
    /\ pc = "kms"
    /\ k < Len(kmsVars)
    /\ LET kv == kmsVars[k + 1]
       IN  \E d \in decryptKmsValue(kv.encoded, kmsReady) :
             /\ kmsReady' = d.ready
             /\ kmsCalls' = IF d.called
                            THEN Append(kmsCalls,
                                        [CiphertextBlob |-> d.blob,
                                         entry          |-> k + 1,
                                         envvar         |-> kv.envvar,
                                         err            |-> d.callErr])
                            ELSE kmsCalls
             /\ IF d.err # "none"
                THEN LET f == kmsFailure(nofail, d.err)
                     IN  /\ err' = f.err
                         /\ pc' = IF f.stop THEN "done" ELSE pc
                         /\ k' = IF f.stop THEN k ELSE k + 1
                         /\ UNCHANGED staged
                ELSE /\ staged' =
                            Append(staged,
                                   [envvar |-> kv.envvar,
                                    val    |-> d.value,
                                    from   |-> "kms",
                                    call   |-> Len(kmsCalls) + 1])
                     /\ k' = k + 1
                     /\ UNCHANGED <<pc, err>>
    /\ UNCHANGED <<env, args, ssmVars, kmsVars, uniqNames, names, i, ssmReady,
                   ssmCalls, setenvLog, stdout>>

RECURSIVE SetEach(_, _)
\* Setenv for every recorded pair, in order.
SetEach(e, pairs) ==
    IF pairs = <<>> THEN e
    ELSE SetEach(Setenv(e, Head(pairs).envvar, Head(pairs).val), Tail(pairs))

\* The line written for a pair: NAME=resolvedValue
Line(pair) == pair.envvar \o <<Eq>> \o pair.val

\* Faulty variant of setEnviron: with print the pairs are written and set
\* as well.
setEnvironPrintsAndSets(print, pairs, e) ==
    [env    |-> SetEach(e, pairs),
     stdout |-> IF print THEN [n \in 1..Len(pairs) |-> Line(pairs[n])]
                ELSE <<>>,
     set    |-> pairs]

\* setEnviron(print, vars) on the environment e: with print the pairs are
\* written and the environment is left alone; without, every pair is set.
\* The result is the environment, the lines written and the Setenv calls.
setEnviron(print, pairs, e) ==
    IF print
    THEN [env    |-> e,
          stdout |-> [n \in 1..Len(pairs) |-> Line(pairs[n])],
          set    |-> <<>>]
    ELSE [env |-> SetEach(e, pairs), stdout |-> <<>>, set |-> pairs]

\* The caller after expandEnviron has returned: setEnviron(print, vars).
\* Beside an error the pass hands back the pairs recorded so far, or none.
SetEnviron ==
    /\ pc = "done"
    /\ \E print \in BOOLEAN :
       \E pairs \in (IF err = NoError THEN {staged} ELSE {staged, <<>>}) :
          LET r == setEnviron(print, pairs, env)
          IN  /\ env' = r.env
              /\ stdout' = stdout \o r.stdout
              /\ setenvLog' = setenvLog \o r.set
              /\ pc' = IF print THEN "printed" ELSE "applied"
    /\ UNCHANGED <<args, err, ssmVars, kmsVars, uniqNames, names, i, k,
                   ssmReady, kmsReady, ssmCalls, kmsCalls, staged>>

PrintNext ==
    \/ Enumerate
    \/ Layout
    \/ StageBatch
    \/ StageDecrypt
    \/ Return
    \/ SetEnviron

\* The passes of the version with a print-only mode, and what the caller
\* does with their result.
SpecPrint == InitPrint /\ [][PrintNext]_vars

----------------------------------------------------------------------------
(* What the properties speak of, read off the environment the pass started *)
(* from and the record of the calls.                                       *)

\* The value of an entry starts with `!kms `.
Encrypted(entry) == HasPrefix(EntryValue(entry), KMSPrefix)

\* The lookup key an entry stands for: none (the empty string) for an
\* encrypted entry, otherwise what the template makes of name and value.
DerivedKey(entry) ==
    LET v == EntryValue(entry)
    IN  IF HasPrefix(v, KMSPrefix) THEN <<>>
        ELSE IF template = "default"
        THEN IF HasPrefix(v, SsmScheme)
             THEN SubSeq(v, Len(SsmScheme) + 1, Len(v))
             ELSE <<>>
        ELSE IF template = "custom" /\ EntryName(entry) \in CustomNames
        THEN CustomKey
        ELSE <<>>

\* An entry that is neither encrypted nor a reference.
Plain(entry) ==
    /\ template # "broken"
    /\ DerivedKey(entry) = <<>>
    /\ ~Encrypted(entry)

\* A key that is not empty and lacks the leading slash.
Bare(key) == key # <<>> /\ Head(key) # "/"

\* An entry whose key lacks the leading slash.
Malformed(entry) == Bare(DerivedKey(entry))

\* The distinct lookup keys of the environment.
DistinctKeys ==
    {DerivedKey(env0[n]) : n \in 1..Len(env0)} \ {<<>>}

Entries == 1..Len(env0)

Calls == 1..Len(ssmCalls)

\* The c-th GetParameters call asked for key.
Requested(key, c) ==
    \E m \in 1..Len(ssmCalls[c].Names) : ssmCalls[c].Names[m] = key

\* The c-th call came back with an output.
Answered(c) == ssmCalls[c].resp # NilOutput

\* The key of a returned entry: its name, then its selector if it has one.
KeyOf(p) == IF p.Selector = Nil THEN p.Name ELSE p.Name \o p.Selector

\* The output of the c-th call holds an entry for key with this value.
ReturnedAs(key, val, c) ==
    /\ Answered(c)
    /\ \E m \in 1..Len(ssmCalls[c].resp.Parameters) :
          /\ KeyOf(ssmCalls[c].resp.Parameters[m]) = key
          /\ ssmCalls[c].resp.Parameters[m].Value = val

\* The output of the c-th call holds an entry for key.
Returned(key, c) == ReturnedAs(key, StoreValue(key), c)

\* The output of the c-th call lists key as invalid.
ReportedInvalid(key, c) ==
    /\ Answered(c)
    /\ \E m \in 1..Len(ssmCalls[c].resp.InvalidParameters) :
          ssmCalls[c].resp.InvalidParameters[m] = key

\* The entry NAME=val of the n-th variable.
Holds(n, val) == env[n] = EntryName(env0[n]) \o <<Eq>> \o val

\* The n-th variable has been set by a Setenv call.
WasSet(n) ==
    \E l \in 1..Len(setenvLog) : setenvLog[l].envvar = EntryName(env0[n])

\* The payload of an encrypted entry as written in the environment: the
\* text after `!kms `, without the quotes and spaces around it.
Payload(entry) ==
    Trim(SubSeq(EntryValue(entry), Len(KMSPrefix) + 1, Len(EntryValue(entry))),
         QuoteCutset)

\* An encrypted entry whose payload is valid base64 as written.
ValidPayload(entry) ==
    Encrypted(entry) /\ ~DecodeString(Payload(entry)).err

\* The bytes a valid payload stands for.
Ciphertext(entry) == DecodeString(Payload(entry)).bytes

\* The Decrypt calls made for the n-th variable.
DecryptsOf(n) ==
    {c \in 1..Len(kmsCalls) : kmsCalls[c].envvar = EntryName(env0[n])}

\* An encrypted entry whose payload does not decode, also after padding.
Undecodable(entry) ==
    Encrypted(entry) /\ DecodeString(Padded(Payload(entry))).err

\* The pass has got as far as the n-th entry in the loop over the encrypted
\* entries: nothing but that loop has returned an error, and every encrypted
\* entry before the n-th has been decrypted.
ReachedKms(n) ==
    /\ err.kind \in {"none", "kms"}
    /\ pc \in {"kms", "done"}
    /\ \A m \in 1..(n - 1) :
          Encrypted(env0[m]) =>
              \E c \in DecryptsOf(m) : ~kmsCalls[c].err

\* The template fails on some entry it is evaluated for.
TemplateFails ==
    template = "broken" /\ \E n \in Entries : ~Encrypted(env0[n])

\* What the template makes of the name and value of an entry, encrypted or
\* not (the empty string also for a template that fails).
TemplateKey(entry) ==
    LET v == EntryValue(entry)
    IN  IF template = "default"
        THEN IF HasPrefix(v, SsmScheme)
             THEN SubSeq(v, Len(SsmScheme) + 1, Len(v))
             ELSE <<>>
        ELSE IF template = "custom" /\ EntryName(entry) \in CustomNames
        THEN CustomKey
        ELSE <<>>

\* The n-th variable has been set from a response of the store (from =
\* "ssm") or from a Decrypt result (from = "kms").
SetFrom(n, from) ==
    \E l \in 1..Len(setenvLog) :
        /\ setenvLog[l].envvar = EntryName(env0[n])
        /\ setenvLog[l].from = from

Finished == pc = "done"

Succeeded == pc = "done" /\ err = NoError

----------------------------------------------------------------------------
(* Properties. *)

\* C1: after a pass that returned no error, every variable whose lookup key
\* was returned by the store in the response to the batch that requested
\* the key holds the store's value for the key; so all the variables that
\* share a key hold the same value.
C1_FanOut ==
    Succeeded =>
        \A n \in Entries :
            LET key == DerivedKey(env0[n])
            IN  \A c \in Calls :
                    (key # <<>> /\ Requested(key, c) /\ Returned(key, c))
                    => Holds(n, StoreValue(key))

\* Two variables share a key that the store returned, and both hold its
\* value after a pass without error.
C1_Witness ==
    /\ Succeeded
    /\ \E m, n \in Entries : \E c \in Calls :
          /\ m # n
          /\ DerivedKey(env0[m]) # <<>>
          /\ DerivedKey(env0[m]) = DerivedKey(env0[n])
          /\ Requested(DerivedKey(env0[n]), c)
          /\ Returned(DerivedKey(env0[n]), c)
          /\ Holds(m, StoreValue(DerivedKey(env0[m])))
          /\ Holds(n, StoreValue(DerivedKey(env0[n])))

\* C2: a plain entry (value without the `!kms ` prefix, empty template
\* output) is never the target of Setenv and keeps its value at every point
\* of the pass, whether the pass ends with or without an error.
C2_PlainUntouched ==
    \A n \in Entries :
        Plain(env0[n]) => (env[n] = env0[n] /\ ~WasSet(n))

\* A pass has ended after setting some variable, beside a plain entry.
C2_Witness ==
    /\ Finished
    /\ setenvLog # <<>>
    /\ \E n \in Entries : Plain(env0[n]) /\ env[n] = env0[n]

\* C3: in strict mode, once the store has reported a requested key invalid,
\* expandEnviron has returned an invalidParametersError whose list is
\* exactly the invalid keys of that response.
C3_StrictInvalid ==
    \A c \in Calls :
        (/\ ~nofail
         /\ Answered(c)
         /\ Len(ssmCalls[c].resp.InvalidParameters) > 0)
        => /\ pc = "done"
           /\ c = Len(ssmCalls)
           /\ err = [kind |-> "invalid",
                     InvalidParameters |-> ssmCalls[c].resp.InvalidParameters]

\* A strict pass ended with the error for a response that listed one of
\* two requested keys as invalid.
C3_Witness ==
    /\ ~nofail
    /\ pc = "done"
    /\ err.kind = "invalid"
    /\ Len(err.InvalidParameters) = 1
    /\ Len(ssmCalls[Len(ssmCalls)].Names) = 2
    /\ Requested(err.InvalidParameters[1], Len(ssmCalls))

\* The places (call, position) at which key was requested.
RequestsOf(key) ==
    {<<c, m>> \in Calls \X (1..MaxVars + 1) :
        m <= Len(ssmCalls[c].Names) /\ ssmCalls[c].Names[m] = key}

\* C4: in best-effort mode, once a response has listed invalid keys, the
\* pass neither fails nor crashes; a variable whose key was reported invalid
\* keeps its literal value, and at the end of the pass every variable whose
\* key was returned, in that batch or in another, holds the resolved value.
C4_BestEffortInvalid ==
    (/\ nofail
     /\ \E c \in Calls :
           Answered(c) /\ Len(ssmCalls[c].resp.InvalidParameters) > 0)
    => /\ pc # "panic"
       /\ err = NoError
       /\ \A n \in Entries :
             LET key == DerivedKey(env0[n])
             IN  \A c \in Calls :
                     /\ (key # <<>> /\ ReportedInvalid(key, c))
                        => env[n] = env0[n]
                     /\ (Finished /\ key # <<>> /\ Returned(key, c))
                        => Holds(n, StoreValue(key))

\* A best-effort pass has ended after one response that listed the key of
\* one variable as invalid and returned the key of another: the first keeps
\* its literal, the second is resolved.
C4_Witness ==
    /\ nofail
    /\ Succeeded
    /\ \E m, n \in Entries : \E c \in Calls :
          /\ DerivedKey(env0[m]) # <<>>
          /\ DerivedKey(env0[n]) # <<>>
          /\ ReportedInvalid(DerivedKey(env0[m]), c)
          /\ Returned(DerivedKey(env0[n]), c)
          /\ env[m] = env0[m]
          /\ Holds(n, StoreValue(DerivedKey(env0[n])))

\* C5: a pass over n distinct lookup keys with batch size b >= 1 that no
\* call has aborted has issued exactly ceil(n/b) GetParameters calls, each
\* with 1 to b names, and every distinct key was requested in exactly one
\* call, once.
C5_Batching ==
    (Succeeded /\ batchSize >= 1) =>
        LET keys == DistinctKeys
        IN  /\ Len(ssmCalls) =
                  (Cardinality(keys) + batchSize - 1) \div batchSize
            /\ \A c \in Calls :
                  /\ Len(ssmCalls[c].Names) >= 1
                  /\ Len(ssmCalls[c].Names) <= batchSize
                  /\ \A m \in 1..Len(ssmCalls[c].Names) :
                        ssmCalls[c].Names[m] \in keys
            /\ \A key \in keys : Cardinality(RequestsOf(key)) = 1

\* Three distinct keys went out in two calls of batch size two.
C5_Witness ==
    /\ Succeeded
    /\ batchSize = 2
    /\ Cardinality(DistinctKeys) = 3
    /\ Len(ssmCalls) = 2
    /\ Len(ssmCalls[1].Names) = 2
    /\ Len(ssmCalls[2].Names) = 1

\* C6: a variable is only ever set from a returned entry whose name followed
\* by its selector (the name alone without selector) equals the variable's
\* lookup key: the entry n with selector :2 sets the variables of key n:2
\* and never one of key n, and the entry n without selector never sets a
\* variable of key n:2.
C6_SelectorKey ==
    \A n \in Entries :
        LET name == EntryName(env0[n])
            key == DerivedKey(env0[n])
        IN  \A l \in 1..Len(setenvLog) :
                (setenvLog[l].from = "ssm" /\ setenvLog[l].envvar = name)
                => ReturnedAs(key, setenvLog[l].val, setenvLog[l].call)

\* A response held the entry of a name with a selector; the variable of the
\* versioned key was set from it and a variable of the bare name was not.
C6_Witness ==
    /\ Succeeded
    /\ \E m, n \in Entries : \E c \in Calls :
          /\ Answered(c)
          /\ \E j \in 1..Len(ssmCalls[c].resp.Parameters) :
                LET p == ssmCalls[c].resp.Parameters[j]
                IN  /\ p.Selector # Nil
                    /\ DerivedKey(env0[n]) = p.Name \o p.Selector
                    /\ DerivedKey(env0[m]) = p.Name
                    /\ Holds(n, p.Value)
          /\ env[m] = env0[m]

\* C7: when no entry of the environment is an SSM reference, no
\* GetParameters call is made and the lazy SSM client never creates its
\* session and SDK client, also when encrypted entries are decrypted in the
\* same pass.
C7_NoReferenceNoCall ==
    (\A n \in Entries : DerivedKey(env0[n]) = <<>>)
    => (ssmCalls = <<>> /\ ~ssmReady)

\* A pass without references has ended after decrypting an encrypted entry.
C7_Witness ==
    /\ \A n \in Entries : DerivedKey(env0[n]) = <<>>
    /\ Succeeded
    /\ ssmCalls = <<>>
    /\ \E l \in 1..Len(setenvLog) : setenvLog[l].from = "kms"

C9_Skipped ==
    nofail =>
        \A n \in Entries :
            LET key == DerivedKey(env0[n])
            IN  Bare(key) =>
                    /\ \A c \in Calls : ~Requested(key, c)
                    /\ env[n] = env0[n]

\* C9, amended: in best-effort mode a lookup key without leading slash is
\* not skipped.  A pass that has ended has requested it, as derived, in
\* exactly one GetParameters call, and its variable keeps its literal value
\* unless the store returned a value for the key; then the variable holds
\* that value.
C9_Requested ==
    (nofail /\ Finished) =>
        \A n \in Entries :
            LET key == DerivedKey(env0[n])
            IN  Bare(key) =>
                    /\ Cardinality(RequestsOf(key)) = 1
                    /\ IF \E c \in Calls : Returned(key, c)
                       THEN Holds(n, StoreValue(key))
                       ELSE env[n] = env0[n]

\* A best-effort pass has ended with a variable resolved through a key
\* without leading slash.
C9_Witness ==
    /\ nofail
    /\ Succeeded
    /\ \E n \in Entries : \E c \in Calls :
          /\ Malformed(env0[n])
          /\ Requested(DerivedKey(env0[n]), c)
          /\ Returned(DerivedKey(env0[n]), c)
          /\ Holds(n, StoreValue(DerivedKey(env0[n])))

\* C10: in best-effort mode, with an entry whose key lacks the leading
\* slash, a pass that ends returns no error and has requested the key from
\* the store as derived, without a slash put in front; and once the store
\* has reported the key invalid the variable keeps its literal value.
C10_BestEffortBare ==
    nofail =>
        \A n \in Entries :
            LET key == DerivedKey(env0[n])
            IN  Bare(key) =>
                    /\ Finished =>
                          /\ err = NoError
                          /\ \E c \in Calls : Requested(key, c)
                    /\ \A c \in Calls :
                          /\ ~Requested(Slash \o key, c)
                          /\ ReportedInvalid(key, c) => env[n] = env0[n]

\* A best-effort pass has ended without error after the store reported the
\* key without leading slash invalid; the variable holds its literal.
C10_Witness ==
    /\ nofail
    /\ Succeeded
    /\ \E n \in Entries : \E c \in Calls :
          /\ Malformed(env0[n])
          /\ Requested(DerivedKey(env0[n]), c)
          /\ ReportedInvalid(DerivedKey(env0[n]), c)
          /\ env[n] = env0[n]

\* C11: for an entry `!kms P` with P valid base64, Decrypt is never called
\* more than once, every call for it carries the decoding of P as ciphertext,
\* a pass that returned no error has called it exactly once, and once a call
\* for it has succeeded the variable holds the plaintext of that ciphertext.
C11_DecryptOnce ==
    \A n \in Entries :
        ValidPayload(env0[n]) =>
            LET calls == DecryptsOf(n)
                blob  == Ciphertext(env0[n])
            IN  /\ Cardinality(calls) <= 1
                /\ Succeeded => Cardinality(calls) = 1
                /\ \A c \in calls :
                      /\ kmsCalls[c].CiphertextBlob = blob
                      /\ ~kmsCalls[c].err => Holds(n, KmsPlaintext(blob))

\* A pass has ended after one successful Decrypt call for a payload written
\* in quotes, and the variable holds the plaintext.
C11_Witness ==
    /\ Succeeded
    /\ \E n \in Entries :
          /\ ValidPayload(env0[n])
          /\ Payload(env0[n]) # EntryValue(env0[n])
          /\ Head(SubSeq(EntryValue(env0[n]), Len(KMSPrefix) + 1,
                         Len(EntryValue(env0[n])))) = "'"
          /\ Cardinality(DecryptsOf(n)) = 1
          /\ Holds(n, KmsPlaintext(<<65, 66, 69>>))

\* C12: for an encrypted entry whose payload does not decode after padding,
\* no Decrypt call is made and the variable keeps its literal; a strict pass
\* that has ended returned an error, and it is the decode error when the
\* pass got as far as this entry; a best-effort pass that has ended returned
\* no error of the encrypted entries, and none at all unless the template
\* failed.
C12_DecodeFailure ==
    \A n \in Entries :
        Undecodable(env0[n]) =>
            /\ DecryptsOf(n) = {}
            /\ env[n] = env0[n]
            /\ (Finished /\ ~nofail) =>
                  /\ err # NoError
                  /\ ReachedKms(n) => err = [kind |-> "kms", cause |-> "decode"]
            /\ (Finished /\ nofail) =>
                  /\ err.kind # "kms"
                  /\ ~TemplateFails => err = NoError

\* A strict pass has returned the decode error for an entry that stands
\* after an encrypted entry it has decrypted.
C12_Witness ==
    /\ ~nofail
    /\ Finished
    /\ err = [kind |-> "kms", cause |-> "decode"]
    /\ \E m, n \in Entries :
          /\ m < n
          /\ ValidPayload(env0[m])
          /\ Undecodable(env0[n])
          /\ ReachedKms(n)
          /\ Holds(m, KmsPlaintext(Ciphertext(env0[m])))
          /\ env[n] = env0[n]

\* C13: once the Decrypt call for an encrypted entry has failed, the
\* variable keeps its literal; in strict mode the pass has returned the
\* error of the encrypted entries with the error of the call as its cause and
\* has made no further call; in best-effort mode the pass returns no error.
C13_DecryptFailure ==
    \A n \in Entries : \A c \in DecryptsOf(n) :
        kmsCalls[c].err =>
            /\ env[n] = env0[n]
            /\ pc # "panic"
            /\ ~nofail =>
                  /\ pc = "done"
                  /\ err = [kind |-> "kms", cause |-> "decrypt"]
                  /\ c = Len(kmsCalls)
            /\ nofail => err = NoError

\* A best-effort pass has ended without error; the Decrypt call of one
\* entry failed and the entry holds its literal, a later one was decrypted.
C13_Witness ==
    /\ nofail
    /\ Succeeded
    /\ \E m, n \in Entries :
          /\ m < n
          /\ \E c \in DecryptsOf(m) : kmsCalls[c].err
          /\ env[m] = env0[m]
          /\ \E c \in DecryptsOf(n) : ~kmsCalls[c].err
          /\ Holds(n, KmsPlaintext(Ciphertext(env0[n])))

\* C14: a best-effort pass that has run to its end has made exactly one
\* Decrypt call for every encrypted entry whose payload decodes and none for
\* the others, whatever the outcome for the other entries and wherever they
\* stand; an entry whose call succeeded holds its plaintext and every other
\* encrypted entry its literal.
C14_Independent ==
    (nofail /\ Succeeded) =>
        \A n \in Entries :
            Encrypted(env0[n]) =>
                LET calls == DecryptsOf(n)
                IN  IF Undecodable(env0[n])
                    THEN calls = {} /\ env[n] = env0[n]
                    ELSE /\ Cardinality(calls) = 1
                         /\ \A c \in calls :
                               IF kmsCalls[c].err
                               THEN env[n] = env0[n]
                               ELSE Holds(n, KmsPlaintext(
                                        DecodeString(Padded(Payload(env0[n]))).bytes))

\* A best-effort pass has ended: the first entry did not decode, the Decrypt
\* call of the second failed, and the third holds its plaintext.
C14_Witness ==
    /\ nofail
    /\ Succeeded
    /\ \E l, m, n \in Entries :
          /\ l < m
          /\ m < n
          /\ Undecodable(env0[l])
          /\ \E c \in DecryptsOf(m) : kmsCalls[c].err
          /\ \E c \in DecryptsOf(n) : ~kmsCalls[c].err
          /\ ValidPayload(env0[n])
          /\ Holds(n, KmsPlaintext(Ciphertext(env0[n])))
          /\ env[l] = env0[l]
          /\ env[m] = env0[m]

\* C15: an entry whose value starts with `!kms ` is an encrypted reference
\* only.  It is never set from a response of the store, also when the
\* template gives a key for its name; every key sent to the store is the key
\* of an entry that is not encrypted; a pass over encrypted entries only
\* never returns the error of the template; and no variable is set both from
\* a response of the store and from a Decrypt result.
C15_EncryptedOnly ==
    /\ \A n \in Entries :
          /\ Encrypted(env0[n]) => ~SetFrom(n, "ssm")
          /\ ~(SetFrom(n, "ssm") /\ SetFrom(n, "kms"))
          /\ SetFrom(n, "kms") => Encrypted(env0[n])
    /\ \A c \in Calls : \A m \in 1..Len(ssmCalls[c].Names) :
          \E n \in Entries :
              /\ ~Encrypted(env0[n])
              /\ TemplateKey(env0[n]) = ssmCalls[c].Names[m]
    /\ (\A n \in Entries : Encrypted(env0[n])) =>
          (ssmCalls = <<>> /\ err.kind # "template")

\* A pass with the template by name has ended: the entry of a name the
\* template gives a key for is encrypted and holds its plaintext, while
\* another entry was resolved through that very key.
C15_Witness ==
    /\ Succeeded
    /\ \E m, n \in Entries :
          /\ Encrypted(env0[m])
          /\ TemplateKey(env0[m]) # <<>>
          /\ ~Encrypted(env0[n])
          /\ TemplateKey(env0[n]) = TemplateKey(env0[m])
          /\ Holds(n, StoreValue(TemplateKey(env0[n])))
          /\ ValidPayload(env0[m])
          /\ Holds(m, KmsPlaintext(Ciphertext(env0[m])))

\* The variables set from the response to the c-th GetParameters call.
SetFromCall(c) ==
    {l \in 1..Len(setenvLog) :
        setenvLog[l].from = "ssm" /\ setenvLog[l].call = c}

\* C16: once a GetParameters call has failed (an error of the call, or the
\* lazy client could not be built), in strict mode the pass has returned the
\* error of the call and makes no further call; in best-effort mode the pass
\* neither fails nor crashes, no variable is set from that call, and a pass
\* that has ended has requested every batch and made the Decrypt call of
\* every encrypted entry whose payload decodes.
C16_CallFailure ==
    \A c \in Calls :
        ssmCalls[c].err =>
            /\ ~nofail =>
                  /\ pc = "done"
                  /\ err = [kind |-> "call"]
                  /\ c = Len(ssmCalls)
                  /\ kmsCalls = <<>>
            /\ nofail =>
                  /\ pc # "panic"
                  /\ err = NoError
                  /\ SetFromCall(c) = {}
                  /\ Finished =>
                        /\ Len(ssmCalls) =
                              (Cardinality(DistinctKeys) + batchSize - 1)
                                  \div batchSize
                        /\ \A n \in Entries :
                              (Encrypted(env0[n]) /\ ~Undecodable(env0[n]))
                              => Cardinality(DecryptsOf(n)) = 1

\* The key was requested in the c-th call, the call came back without
\* error, and its output holds the key neither as an entry nor as invalid.
Omitted(key, c) ==
    /\ Requested(key, c)
    /\ ~ssmCalls[c].err
    /\ Answered(c)
    /\ \A m \in 1..Len(ssmCalls[c].resp.Parameters) :
          KeyOf(ssmCalls[c].resp.Parameters[m]) # key
    /\ ~ReportedInvalid(key, c)

\* C17: when a requested key is in neither list of the response to its
\* batch, a strict pass that has ended returned an error, and a best-effort
\* pass that has ended returned none and the variables of the key hold their
\* literals.
C17_OmittedKey ==
    \A n \in Entries :
        LET key == DerivedKey(env0[n])
        IN  \A c \in Calls :
                (key # <<>> /\ Omitted(key, c)) =>
                    /\ (Finished /\ ~nofail) => err # NoError
                    /\ (Finished /\ nofail) =>
                          (err = NoError /\ env[n] = env0[n])
                    /\ nofail => env[n] = env0[n]

\* C20: in strict mode a lookup key without a leading slash is resolvable:
\* the pass does not reject the entry, a pass that returned no error has
\* asked the store for the key, and once the store has returned the key the
\* variable holds the stored value.
C20_BareKeyStrict ==
    ~nofail =>
        \A n \in Entries :
            LET key == DerivedKey(env0[n])
            IN  Bare(key) =>
                    /\ err.kind # "malformed"
                    /\ Succeeded => \E c \in Calls : Requested(key, c)
                    /\ \A c \in Calls :
                          Returned(key, c) => Holds(n, StoreValue(key))

\* C18: when the template fails on an entry, the pass makes no
\* GetParameters call and no Decrypt call and sets no variable, and in
\* strict mode and in best-effort mode alike a pass that has ended returned
\* an error.
C18_TemplateFailure ==
    TemplateFails =>
        /\ ssmCalls = <<>>
        /\ kmsCalls = <<>>
        /\ setenvLog = <<>>
        /\ env = env0
        /\ pc \in {"start", "done"}
        /\ Finished => err # NoError

\* A best-effort pass has returned the error of the template for an entry
\* that stands after an encrypted entry, which was not decrypted.
C18_Witness ==
    /\ nofail
    /\ Finished
    /\ err = [kind |-> "template"]
    /\ \E m, n \in Entries :
          /\ m < n
          /\ ValidPayload(env0[m])
          /\ ~Encrypted(env0[n])
          /\ env[m] = env0[m]
    /\ kmsCalls = <<>>

\* The value the n-th variable has after a pass: the store's value when the
\* store returned its key, the plaintext when its Decrypt call succeeded,
\* and its literal otherwise.
Resolution(n) ==
    LET key == DerivedKey(env0[n])
    IN  IF key # <<>> /\ \E c \in Calls : Returned(key, c)
        THEN EntryName(env0[n]) \o <<Eq>> \o StoreValue(key)
        ELSE IF \E c \in DecryptsOf(n) : ~kmsCalls[c].err
        THEN EntryName(env0[n]) \o <<Eq>> \o
             KmsPlaintext(DecodeString(Padded(Payload(env0[n]))).bytes)
        ELSE env0[n]

\* C19: the command is exec'ed only after expandEnviron has returned without
\* error, and with the resolved value for every resolved entry and the
\* literal for every other one; once expandEnviron has returned an error the
\* process is at that return or has exited with status 1, and a process
\* that has exited or crashed never execs.
C19_ExecAfterPass ==
    /\ pc = "exec" =>
          /\ err = NoError
          /\ \A n \in Entries : env[n] = Resolution(n)
    /\ err # NoError => pc \in {"done", "exit"}

\* The command was exec'ed after a best-effort pass in which the store
\* returned the key of one variable and reported the key of another
\* invalid: the first holds the store's value, the second its literal.
C19_Witness ==
    /\ pc = "exec"
    /\ nofail
    /\ \E m, n \in Entries : \E c \in Calls :
          /\ DerivedKey(env0[m]) # <<>>
          /\ DerivedKey(env0[n]) # <<>>
          /\ Returned(DerivedKey(env0[m]), c)
          /\ ReportedInvalid(DerivedKey(env0[n]), c)
          /\ Holds(m, StoreValue(DerivedKey(env0[m])))
          /\ env[n] = env0[n]

\* The characters the payload is freed of on both sides.
QuoteOrSpace(c) == c = "'" \/ c = "\"" \/ c = " "

\* The value starts with the five characters `!kms `.
StartsWithTag(v) ==
    /\ Len(v) >= 5
    /\ v[1] = "!" /\ v[2] = "k" /\ v[3] = "m" /\ v[4] = "s" /\ v[5] = " "

\* p is what is left of rest when every leading and every trailing quote
\* and space is removed: rest is a run of such characters, p, and a run of
\* such characters, and p neither starts nor ends with one.
StrippedOf(p, rest) ==
    \E a, b \in 0..Len(rest) :
        /\ a + b <= Len(rest)
        /\ \A j \in 1..a : QuoteOrSpace(rest[j])
        /\ \A j \in (Len(rest) - b + 1)..Len(rest) : QuoteOrSpace(rest[j])
        /\ p = SubSeq(rest, a + 1, Len(rest) - b)
        /\ p # <<>> => (~QuoteOrSpace(p[1]) /\ ~QuoteOrSpace(p[Len(p)]))

\* The enumeration loop has classified every entry.
Classified == pc \in {"layout", "batch", "kms", "panic"} \/ Succeeded

\* The entries whose value starts with `!kms `, in the order of the
\* environment.
TaggedEntries ==
    SelectSeq([n \in 1..Len(env0) |-> n],
              LAMBDA n : StartsWithTag(EntryValue(env0[n])))

\* C21: a value is an encrypted reference exactly when it starts with the
\* literal `!kms `: once the entries are classified, the list of encrypted
\* variables holds, in order, the entries whose value starts with it (not
\* `!kmsa`, not `ssm:///a`), each with the payload that is the value without
\* the prefix and without its leading and trailing quotes and spaces;
\* `!kms ` alone has the empty payload.
C21_Extraction ==
    Classified =>
        /\ Len(kmsVars) = Len(TaggedEntries)
        /\ \A j \in 1..Len(kmsVars) :
              j <= Len(TaggedEntries) =>
                  LET v == EntryValue(env0[TaggedEntries[j]])
                  IN  /\ kmsVars[j].envvar = EntryName(env0[TaggedEntries[j]])
                      /\ StrippedOf(kmsVars[j].encoded, SubSeq(v, 6, Len(v)))
                      /\ Len(v) = 5 => kmsVars[j].encoded = <<>>
        /\ \A j \in 1..Len(ssmVars) : \A n \in Entries :
              ssmVars[j].envvar = EntryName(env0[n])
              => ~StartsWithTag(EntryValue(env0[n]))

\* The entries are classified: `!kms ` alone is an encrypted variable with
\* the empty payload, `!kms 'Q'U'` one with the payload Q'U, and `!kmsa`
\* is none.
C21_Witness ==
    /\ Classified
    /\ Len(kmsVars) = 2
    /\ kmsVars[1].encoded = <<>>
    /\ kmsVars[2].encoded = <<"Q", "'", "U">>
    /\ EntryValue(env0[1]) = <<"!", "k", "m", "s", " ">>
    /\ EntryValue(env0[2]) = <<"!", "k", "m", "s", "a">>

\* The n-th variable was resolved: the store returned its key, or its
\* Decrypt call succeeded.
Resolved(n) ==
    \/ (DerivedKey(env0[n]) # <<>>
        /\ \E c \in Calls : Returned(DerivedKey(env0[n]), c))
    \/ \E c \in DecryptsOf(n) : ~kmsCalls[c].err

\* The environment holds no reference, to the store or encrypted.
NoReference ==
    \A n \in Entries : DerivedKey(env0[n]) = <<>> /\ ~Encrypted(env0[n])

\* C22: in print-only mode no Setenv is performed and the environment after
\* the pass equals the one before it; after a pass without error the
\* output holds the line NAME=resolvedValue of every resolved variable, once,
\* and no other line; and when the environment holds no reference the
\* output is empty.
C22_PrintOnly ==
    /\ pc # "applied" => (env = env0 /\ setenvLog = <<>>)
    /\ pc # "printed" => stdout = <<>>
    /\ pc = "printed" =>
          /\ err = NoError =>
                /\ \A n \in Entries :
                      Resolved(n) =>
                          Cardinality({l \in 1..Len(stdout) :
                                          stdout[l] = Resolution(n)}) = 1
                /\ \A l \in 1..Len(stdout) :
                      \E n \in Entries :
                          Resolved(n) /\ stdout[l] = Resolution(n)
          /\ NoReference => stdout = <<>>

\* A pass in print-only mode has ended: the output holds the line of a
\* variable the store returned a value for, and the variable still holds
\* its `ssm://` literal.
C22_Witness ==
    /\ pc = "printed"
    /\ err = NoError
    /\ \E n \in Entries :
          /\ DerivedKey(env0[n]) # <<>>
          /\ Resolved(n)
          /\ env[n] = env0[n]
          /\ \E l \in 1..Len(stdout) :
                stdout[l] = EntryName(env0[n]) \o <<Eq>> \o
                            StoreValue(DerivedKey(env0[n]))

\* The c-th GetParameters call failed: an error of the call, or invalid
\* keys in its response.
FailedBatch(c) ==
    \/ ssmCalls[c].err
    \/ (Answered(c) /\ Len(ssmCalls[c].resp.InvalidParameters) > 0)

\* C23: in strict mode, once the k-th batch has failed, the pass has
\* returned an error and requested no later batch; no variable is set from
\* batch k or later, so the variables of its keys hold their literals, also
\* those of keys it returned as valid; the variables resolved by the batches
\* 1..k-1 hold their resolved values; and no encrypted entry is processed.
C23_StrictBatchFailure ==
    ~nofail =>
        \A c \in Calls :
            FailedBatch(c) =>
                /\ pc = "done"
                /\ err # NoError
                /\ c = Len(ssmCalls)
                /\ \A l \in 1..Len(setenvLog) :
                      setenvLog[l].from = "ssm" /\ setenvLog[l].call < c
                /\ kmsCalls = <<>>
                /\ k = 0
                /\ \A n \in Entries :
                      LET key == DerivedKey(env0[n])
                      IN  /\ Encrypted(env0[n]) => env[n] = env0[n]
                          /\ \A b \in 1..(c - 1) :
                                (key # <<>> /\ Returned(key, b))
                                => Holds(n, StoreValue(key))
                          /\ Requested(key, c) => env[n] = env0[n]
                          /\ (key # <<>> /\ \A b \in Calls : ~Requested(key, b))
                             => env[n] = env0[n]

\* A strict pass has ended with the error of its second batch: the
\* variable of the first batch holds its resolved value, the variable of the
\* second its literal, and the encrypted entry was not processed.
C23_Witness ==
    /\ ~nofail
    /\ pc = "done"
    /\ Len(ssmCalls) = 2
    /\ ~FailedBatch(1)
    /\ FailedBatch(2)
    /\ \E l, m, n \in Entries :
          /\ Returned(DerivedKey(env0[l]), 1)
          /\ Holds(l, StoreValue(DerivedKey(env0[l])))
          /\ Requested(DerivedKey(env0[m]), 2)
          /\ env[m] = env0[m]
          /\ Encrypted(env0[n])
          /\ env[n] = env0[n]

\* The number of encrypted entries that stand before the n-th entry.
EncryptedBefore(n) ==
    Cardinality({m \in 1..(n - 1) : Encrypted(env0[m])})

\* The n-th entry is the encrypted entry a strict pass has failed on: its
\* Decrypt call failed, or the pass returned the decode error when it was
\* this entry's turn.
FailedEntry(n) ==
    /\ Encrypted(env0[n])
    /\ \/ \E c \in DecryptsOf(n) : kmsCalls[c].err
       \/ /\ Undecodable(env0[n])
          /\ pc = "done"
          /\ err = [kind |-> "kms", cause |-> "decode"]
          /\ k = EncryptedBefore(n)

\* C24: in strict mode, once an encrypted entry has failed (decode or
\* decrypt), the pass has returned; no Decrypt call and no Setenv is made
\* for an encrypted entry that stands later, and such an entry holds its
\* literal; every encrypted entry that stands before holds its plaintext, and
\* every variable whose key the store returned holds the store's value.
C24_StrictKmsFailure ==
    ~nofail =>
        \A n \in Entries :
            FailedEntry(n) =>
                /\ pc = "done"
                /\ err.kind = "kms"
                /\ env[n] = env0[n]
                /\ \A m \in Entries :
                      LET key == DerivedKey(env0[m])
                      IN  /\ (m > n /\ Encrypted(env0[m])) =>
                                /\ DecryptsOf(m) = {}
                                /\ ~WasSet(m)
                                /\ env[m] = env0[m]
                          /\ (m < n /\ Encrypted(env0[m])) =>
                                /\ \E c \in DecryptsOf(m) : ~kmsCalls[c].err
                                /\ Holds(m, KmsPlaintext(
                                       DecodeString(Padded(Payload(env0[m]))).bytes))
                          /\ \A c \in Calls :
                                (key # <<>> /\ Returned(key, c))
                                => Holds(m, StoreValue(key))

\* A strict pass has ended on the failure of its second encrypted entry:
\* the first holds its plaintext, and the third was neither decrypted nor
\* set.
C24_Witness ==
    /\ ~nofail
    /\ pc = "done"
    /\ \E l, m, n \in Entries :
          /\ l < m
          /\ m < n
          /\ Encrypted(env0[l])
          /\ Holds(l, KmsPlaintext(Ciphertext(env0[l])))
          /\ FailedEntry(m)
          /\ ValidPayload(env0[n])
          /\ DecryptsOf(n) = {}
          /\ env[n] = env0[n]

\* C25: within one pass the environment is listed once, before any call
\* and any Setenv: nothing has been called or set while the pass is at its
\* start, the lists of the classification are written only by the step that
\* leaves the start, and the pass never comes back to it.  Every
\* GetParameters call precedes every Decrypt call: once the loop over the
\* encrypted entries has begun no GetParameters call is made and no
\* variable is set from the store.
C25_Order ==
    /\ [](pc = "start" =>
            (ssmCalls = <<>> /\ kmsCalls = <<>> /\ setenvLog = <<>>))
    /\ [][/\ (ssmVars' # ssmVars \/ kmsVars' # kmsVars \/ uniqNames' # uniqNames)
             => pc = "start"
          /\ pc # "start" => pc' # "start"
          /\ (kmsCalls # <<>> \/ k > 0 \/ kmsCalls' # kmsCalls \/ k' # k)
             => ssmCalls' = ssmCalls
          /\ \A l \in 1..Len(setenvLog') :
                (l > Len(setenvLog) /\ setenvLog'[l].from = "ssm")
                => (kmsCalls = <<>> /\ k = 0)]_vars

\* A pass has ended after two GetParameters calls and a Decrypt call, with
\* a variable set from the store and one set from a Decrypt result.
C25_Witness ==
    /\ Succeeded
    /\ Len(ssmCalls) = 2
    /\ Len(kmsCalls) = 1
    /\ \E l, m \in 1..Len(setenvLog) :
          /\ l < m
          /\ setenvLog[l].from = "ssm"
          /\ setenvLog[m].from = "kms"

\* What the c-th call answered for a key it was asked for.
AnswerFor(key, c) ==
    IF Returned(key, c) THEN "valid"
    ELSE IF ReportedInvalid(key, c) THEN "invalid"
    ELSE "omitted"

\* The stores that answer by key, fail every call, or have no session, and
\* that answer every call of the pass as it was answered.
SeenStores ==
    {[kind |-> "answers", of |-> f] :
        f \in {g \in [uniqNames -> Outcomes] :
                  \A c \in Calls :
                      /\ ~ssmCalls[c].err
                      /\ \A m \in 1..Len(ssmCalls[c].Names) :
                            g[ssmCalls[c].Names[m]] =
                                AnswerFor(ssmCalls[c].Names[m], c)}}
    \cup {[kind |-> kind, of |-> [key \in uniqNames |-> "omitted"]] :
            kind \in {x \in {"fails", "nosession"} :
                         /\ ssmCalls # <<>>
                         /\ \A c \in Calls :
                               /\ ssmCalls[c].err
                               /\ (x = "nosession") =
                                      (ssmCalls[c].resp = NilOutput)}}

\* The pass has left its batch loop: it goes on with the encrypted entries,
\* it has returned an error of a batch, or it has crashed.
EndOfBatches ==
    \/ pc = "panic"
    \/ (pc = "kms" /\ k = 0 /\ kmsCalls = <<>>)
    \/ (pc = "done" /\ err.kind \in {"call", "invalid"})

\* What the batch loop of the pass has left.
ActualBatches == [env |-> env, err |-> err, panic |-> pc = "panic"]

\* The store reports a key invalid.
ReportsInvalid(st) ==
    st.kind = "answers" /\ \E key \in uniqNames : st.of[key] = "invalid"

\* C26 as stated: the environment and the error the batch loop of a pass
\* leaves do not depend on the order of the names: over the same store,
\* every other layout of the distinct keys gives what the pass has given.
C26_OrderFree ==
    EndOfBatches =>
        \A st \in SeenStores : \A other \in Layouts(uniqNames) :
            BatchLoop(env0, ssmVars, other, 0, batchSize, nofail, st)
                = ActualBatches

\* C26, amended: the environment and the error the batch loop of a pass
\* leaves do not depend on the order of the names in best-effort mode, and
\* in strict mode when the store reports no key invalid; in strict mode
\* with an invalid key every layout ends in an invalidParametersError.
C26_OrderFreeUnlessStrictInvalid ==
    EndOfBatches =>
        \A st \in SeenStores : \A other \in Layouts(uniqNames) :
            LET alt == BatchLoop(env0, ssmVars, other, 0, batchSize, nofail, st)
            IN  IF nofail \/ ~ReportsInvalid(st)
                THEN alt = ActualBatches
                ELSE alt.err.kind = "invalid" /\ err.kind = "invalid"

\* A best-effort pass over three distinct keys has left its batch loop
\* after two calls; the store reported one key invalid and returned
\* another, whose variable is set.
C26_Witness ==
    /\ nofail
    /\ pc = "kms"
    /\ k = 0
    /\ Cardinality(uniqNames) = 3
    /\ Len(ssmCalls) = 2
    /\ SeenStores # {}
    /\ \E key \in uniqNames : \E c \in Calls : ReportedInvalid(key, c)
    /\ \E n \in Entries : \E c \in Calls :
          /\ Returned(DerivedKey(env0[n]), c)
          /\ Holds(n, StoreValue(DerivedKey(env0[n])))

\* s is t followed by count characters `=`.
PaddedWith(s, t, count) ==
    /\ Len(s) = Len(t) + count
    /\ \A j \in 1..Len(t) : s[j] = t[j]
    /\ \A j \in (Len(t) + 1)..Len(s) : s[j] = "="

\* An encrypted entry whose payload, as written in the environment, is
\* canonical padded base64.
Canonical(entry) ==
    /\ ValidPayload(entry)
    /\ Len(Payload(entry)) % 4 = 0

\* C27: the padding step appends 4 - (len mod 4) characters `=` to a payload
\* whose length is not a multiple of 4 and nothing otherwise, so what goes
\* to the decoder has a length that is a multiple of 4; and for an entry
\* whose payload is canonical padded base64 every Decrypt call carries the
\* decoding of the payload as written in the environment, and a pass
\* without error has made that call, although the payload the loop keeps
\* has lost its trailing `=`.
C27_Padding ==
    /\ \A j \in 1..Len(kmsVars) :
          LET p == kmsVars[j].encoded
              q == Padded(p)
          IN  /\ Len(q) % 4 = 0
              /\ IF Len(p) % 4 = 0
                 THEN q = p
                 ELSE PaddedWith(q, p, 4 - (Len(p) % 4))
    /\ \A n \in Entries :
          Canonical(env0[n]) =>
              /\ \A c \in DecryptsOf(n) :
                    kmsCalls[c].CiphertextBlob = Ciphertext(env0[n])
              /\ Succeeded => DecryptsOf(n) # {}
              /\ \A j \in 1..Len(kmsVars) :
                    kmsVars[j].envvar = EntryName(env0[n])
                    => \A l \in 1..Len(kmsVars[j].encoded) :
                           kmsVars[j].encoded[l] # "="

\* A pass has ended: an entry written with two characters of padding, in
\* quotes, was kept without them and decrypted from the decoding of the
\* payload as written.
C27_Witness ==
    /\ Succeeded
    /\ \E n \in Entries : \E j \in 1..Len(kmsVars) :
          /\ Canonical(env0[n])
          /\ Payload(env0[n]) = <<"Q", "Q", "=", "=">>
          /\ kmsVars[j].envvar = EntryName(env0[n])
          /\ kmsVars[j].encoded = <<"Q", "Q">>
          /\ \E c \in DecryptsOf(n) :
                /\ kmsCalls[c].CiphertextBlob = <<65>>
                /\ ~kmsCalls[c].err
          /\ Holds(n, KmsPlaintext(<<65>>))

\* C28: the value the pass classifies is the complete text after the first
\* `=` of the entry: once the entries are classified, an entry is among
\* the encrypted variables exactly when that text starts with `!kms `, and
\* it is among the variables of the store exactly when the template makes a
\* key of that text, and then with that key.
C28_WholeValue ==
    Classified =>
        \A n \in Entries :
            LET name == EntryName(env0[n])
                key  == DerivedKey(env0[n])
            IN  /\ StartsWithTag(EntryValue(env0[n]))
                   <=> \E j \in 1..Len(kmsVars) : kmsVars[j].envvar = name
                /\ (key # <<>>)
                   <=> \E j \in 1..Len(ssmVars) : ssmVars[j].envvar = name
                /\ \A j \in 1..Len(ssmVars) :
                      ssmVars[j].envvar = name => ssmVars[j].parameter = key

\* The Setenv calls made for the n-th variable.
SetsOf(n) ==
    {l \in 1..Len(setenvLog) : setenvLog[l].envvar = EntryName(env0[n])}

\* The value reads like a reference: it starts with `ssm://` or `!kms `.
ReadsLikeReference(v) ==
    \/ StartsWithTag(v)
    \/ (Len(v) >= 6 /\ SubSeq(v, 1, 6) = <<"s", "s", "m", ":", "/", "/">>)

\* C29: the entries are classified once, as they stood before the pass.
\* Every key sent to the store is the key of an entry of that environment
\* and every Decrypt call carries the payload of an entry encrypted in it;
\* no key is requested twice, no entry decrypted twice and no variable set
\* twice; and after a pass without error a resolved variable holds the
\* resolved value verbatim, also when that value starts with `ssm://` or
\* `!kms `.
C29_ClassifiedOnce ==
    /\ \A c \in Calls : \A m \in 1..Len(ssmCalls[c].Names) :
          /\ ssmCalls[c].Names[m] \in DistinctKeys
          /\ Cardinality(RequestsOf(ssmCalls[c].Names[m])) = 1
    /\ \A c \in 1..Len(kmsCalls) :
          \E n \in Entries :
              /\ Encrypted(env0[n])
              /\ kmsCalls[c].envvar = EntryName(env0[n])
              /\ kmsCalls[c].CiphertextBlob =
                     DecodeString(Padded(Payload(env0[n]))).bytes
    /\ \A n \in Entries :
          /\ Cardinality(DecryptsOf(n)) <= 1
          /\ Cardinality(SetsOf(n)) <= 1
          /\ \A l \in SetsOf(n) :
                env[n] = EntryName(env0[n]) \o <<Eq>> \o setenvLog[l].val
          /\ Succeeded => env[n] = Resolution(n)

\* A pass has ended: the variable of /r holds the stored `ssm:///b`, which
\* was never requested, and an encrypted variable holds the plaintext
\* `!kms QUJD` after its one Decrypt call.
C29_Witness ==
    /\ Succeeded
    /\ \E m, n \in Entries :
          /\ DerivedKey(env0[m]) = <<"/", "r">>
          /\ ReadsLikeReference(EntryValue(env[m]))
          /\ EntryValue(env[m]) # EntryValue(env0[m])
          /\ \A c \in Calls : ~Requested(<<"/", "b">>, c)
          /\ Encrypted(env0[n])
          /\ StartsWithTag(EntryValue(env[n]))
          /\ EntryValue(env[n]) # EntryValue(env0[n])
          /\ Cardinality(DecryptsOf(n)) = 1
          /\ Len(kmsCalls) = 1

\* The least number of batches of the given size that hold count keys.
CeilDiv(count, size) == (count + size - 1) \div size

\* expandEnviron has returned or panicked.
Terminated == pc \in {"done", "panic"}

\* The entries encrypted before the pass.
EncryptedEntries == {n \in Entries : Encrypted(env0[n])}

\* No key is sent to the store in two calls, and no entry to KMS twice.
NoRetry ==
    /\ \A c, d \in Calls :
          c # d => \A m \in 1..Len(ssmCalls[c].Names) :
                      ~Requested(ssmCalls[c].Names[m], d)
    /\ \A c, d \in 1..Len(kmsCalls) :
          c # d => kmsCalls[c].entry # kmsCalls[d].entry

\* C30: a pass with batch size b >= 1 ends, and at every moment it has made
\* at most ceil(n / b) GetParameters calls for the n distinct lookup keys
\* of the environment and at most one Decrypt call per encrypted entry,
\* none of them a repetition of an earlier call.
C30_Bounded ==
    /\ [](/\ batchSize >= 1
          /\ Len(ssmCalls) <= CeilDiv(Cardinality(DistinctKeys), batchSize)
          /\ Len(kmsCalls) <= Cardinality(EncryptedEntries)
          /\ \A n \in Entries : Cardinality(DecryptsOf(n)) <= 1
          /\ NoRetry)
    /\ <>Terminated

\* A pass over three distinct keys in batches of two has ended after its
\* two GetParameters calls, and a pass with an encrypted entry after its
\* one Decrypt call.
C30_Witness ==
    /\ Terminated
    /\ \/ /\ Cardinality(DistinctKeys) = 3
          /\ batchSize = 2
          /\ Len(ssmCalls) = 2
       \/ /\ Cardinality(DistinctKeys) >= 2
          /\ Len(ssmCalls) = CeilDiv(Cardinality(DistinctKeys), batchSize)
          /\ Len(kmsCalls) = 1
          /\ Cardinality(EncryptedEntries) = 1

====
